---- MODULE Spec2Model ----
(***************************************************************************)
(* Model of the neusik backend job pipeline: the upload / status /         *)
(* download routes (backend/src/routes/separation.ts), the multer upload   *)
(* configuration (utils/upload.ts), the error utilities (utils/errors.ts), *)
(* the BullMQ queue and worker (services/queue.ts) and the separation      *)
(* service (services/processor.ts, services/video-extractor.ts).           *)
(*                                                                         *)
(* The queue store (Redis) is the variable separationQueue.  Job ids are   *)
(* the naturals 1..MaxJobs, handed out in order; an id that was never      *)
(* handed out is an unknown job id.  Job states carry the names that       *)
(* Job.getState() returns: "waiting" is the queued state.                  *)
(***************************************************************************)
EXTENDS Integers, FiniteSets, Sequences, TLC

\* ---------------------------------------------------------------- bounds
MaxJobs == 1
\* the worker process dies at most this many times while it runs one job
MaxCrashes == 1
\* the hook of the frontend issues at most this many polls for a job
MaxPolls == 3

\* ------------------------------------------------------ program constants
JOB_ATTEMPTS == 3
CONCURRENCY == 1
MAX_POLLING_ATTEMPTS == 300
MAX_FILE_SIZE_MB == 100
MAX_FILE_SIZE_BYTES == MAX_FILE_SIZE_MB * 1024 * 1024

NoJob == 0
JobIds == 1..MaxJobs
\* ids a client may ask for: every id that can be issued and one that never is
RequestIds == 1..(MaxJobs + 1)

\* the uploads the model tries, as <<declared content type, extension>>: an
\* audio file, a video file, and a binary file of an unrecognized extension
UploadKinds ==
    {<<"audio/mpeg", ".mp3">>, <<"video/mp4", ".mp4">>,
     <<"application/octet-stream", ".xyz">>}
Extensions == {k[2] : k \in UploadKinds}
Sizes == {0, 2 * 1024 * 1024, MAX_FILE_SIZE_BYTES, MAX_FILE_SIZE_BYTES + 1}

\* ------------------------------------------------------------ upload.ts
ALLOWED_MIME_TYPES ==
    {"audio/mpeg", "audio/wav", "audio/mp4", "audio/flac", "audio/ogg",
     "audio/aac", "audio/x-m4a", "audio/m4a",
     "video/mp4", "video/mpeg", "video/quicktime", "video/x-msvideo",
     "video/webm", "video/x-matroska"}

videoMimeTypes ==
    {"video/mp4", "video/mpeg", "video/quicktime", "video/x-msvideo",
     "video/webm", "video/x-matroska"}

videoExtensions ==
    {".mp4", ".mpeg", ".mpg", ".mov", ".avi", ".webm", ".mkv", ".flv", ".wmv"}

audioExtensions == {".mp3", ".wav", ".m4a", ".flac", ".ogg", ".aac"}

\* mutant: a filter that lets every declared content type through
fileFilterAny(mimetype) == TRUE

\* fileFilter: TRUE when multer accepts the file (cb(null, true))
fileFilter(mimetype) == mimetype \in ALLOWED_MIME_TYPES

\* the busboy limit of multer: the file is cut and LIMIT_FILE_SIZE raised
\* when more than limits.fileSize bytes arrive
exceedsMulterLimit(size) == size > MAX_FILE_SIZE_BYTES

isVideoFile(mimetype, ext) ==
    IF mimetype \in videoMimeTypes THEN TRUE ELSE ext \in videoExtensions

\* ------------------------------------------------------------ errors.ts
\* the error classes, as [class, code, statusCode]
ValidationError == [class |-> "AppError", code |-> "VALIDATION_ERROR", statusCode |-> 400]
FileUploadError == [class |-> "AppError", code |-> "FILE_UPLOAD_ERROR", statusCode |-> 400]
NotFoundError == [class |-> "AppError", code |-> "NOT_FOUND", statusCode |-> 404]
\* an error that is no AppError: multer's MulterError, a Redis error
PlainError == [class |-> "Error", code |-> "", statusCode |-> 0]

getStatusCode(error) ==
    IF error.class = "AppError" THEN error.statusCode ELSE 500

formatErrorCode(error) ==
    IF error.class = "AppError" THEN error.code ELSE "INTERNAL_ERROR"

\* --------------------------------------------- processor.ts, the Result
\* job.returnvalue of a job that has not completed (null)
NoResult == [status |-> "null", output |-> FALSE, videoOutput |-> FALSE]

\* a message that is absent; "" is falsy in `failedReason || undefined`
NoError == ""

\* the text separate.py wrote to its diagnostic stream (errorOutput)
errorOutput == "Traceback (most recent call last)"

\* How a run ends.  Besides what the code passes on (the Result, or the
\* message and the details of the ProcessingError) the record keeps what
\* happened on the way: merge says whether the merge step ran and how it
\* ended, artifact what the tool left at result.output.path.
Resolve(result) ==
    [ok |-> TRUE, result |-> result, message |-> NoError, error_type |-> "",
     python_stderr |-> NoError, merge |-> "notrun", artifact |-> "missing",
     details |-> {}]
Reject(message, errorType) ==
    [ok |-> FALSE, result |-> NoResult, message |-> message, error_type |-> errorType,
     python_stderr |-> NoError, merge |-> "notrun", artifact |-> "missing",
     details |-> {}]

\* new ProcessingError(message, details): details names the keys of the
\* details object
RejectWith(message, errorType, details) ==
    [Reject(message, errorType) EXCEPT !.details = details]

\* what the environment does to one run of separateAudio
Envs ==
    [ffmpegAvailable : BOOLEAN,          \* checkFFmpegAvailable()
     ffmpegSpawnOk   : BOOLEAN,          \* no 'error' event of the ffmpeg child
     ffmpegExit      : {0, 1},           \* exit code of the extraction
     extracted       : {"missing", "empty", "ok"},   \* fs.stat(outputPath)
     pySpawnOk       : BOOLEAN,          \* no 'error' event of the python child
     pyExit          : {0, 1},           \* exit code of separate.py
     parseable       : BOOLEAN,          \* JSON.parse(output.trim()) succeeds
     declared        : {"success", "error"},         \* result.status
     toolMessage     : {NoError, "Error description"},  \* result.message
     hasOutput       : BOOLEAN,          \* result.output is present
     artifact        : {"missing", "empty", "ok"},   \* the file at result.output.path
     mergeOk         : BOOLEAN]          \* mergeAudioIntoVideo and getFileInfo

\* the runs the worker of the queue model meets: the transcoder is missing or
\* works, the tool exits 1, prints no JSON, declares an error or succeeds
WorkerEnvs ==
    {env \in Envs : /\ env.ffmpegSpawnOk /\ env.ffmpegExit = 0
                    /\ env.extracted = "ok" /\ env.pySpawnOk
                    /\ env.toolMessage # NoError
                    /\ (~env.hasOutput => env.artifact = "missing")}

isVideoFileByExtension(ext) == ext \in videoExtensions

detectMediaType(ext) ==
    IF ext \in videoExtensions THEN "video"
    ELSE IF ext \in audioExtensions THEN "audio"
    ELSE "audio"

detectFileType(ext) ==
    IF isVideoFileByExtension(ext) THEN "video" ELSE detectMediaType(ext)

\* mutant: the extracted file is not looked at when the transcoder exits 0
extractAudioFromVideoNoStat(env) ==
    IF ~env.ffmpegAvailable
    THEN RejectWith("FFmpeg is not available. Video extraction cannot be performed.",
                    "FFMPEG_NOT_FOUND", {"error_type"})
    ELSE IF ~env.ffmpegSpawnOk
    THEN RejectWith("Failed to spawn FFmpeg process", "FFMPEG_SPAWN_ERROR",
                    {"error_type", "error"})
    ELSE IF env.ffmpegExit = 0
    THEN Resolve(NoResult)
    ELSE RejectWith("Failed to extract audio from video", "EXTRACTION_FAILED",
                    {"error_type", "exit_code", "ffmpeg_stderr", "ffmpeg_stdout"})

extractAudioFromVideo(env) ==
    IF ~env.ffmpegAvailable
    THEN RejectWith("FFmpeg is not available. Video extraction cannot be performed.",
                    "FFMPEG_NOT_FOUND", {"error_type"})
    ELSE IF ~env.ffmpegSpawnOk
    THEN RejectWith("Failed to spawn FFmpeg process", "FFMPEG_SPAWN_ERROR",
                    {"error_type", "error"})
    ELSE IF env.ffmpegExit = 0
    THEN IF env.extracted = "missing"
         THEN RejectWith("Extracted audio file not found after extraction",
                         "EXTRACTION_FAILED",
                         {"error_type", "ffmpeg_stderr", "file_error"})
         ELSE IF env.extracted = "empty"
         THEN RejectWith("Extracted audio file is empty", "EXTRACTION_FAILED",
                         {"error_type", "ffmpeg_stderr"})
         ELSE Resolve(NoResult)
    ELSE RejectWith("Failed to extract audio from video", "EXTRACTION_FAILED",
                    {"error_type", "exit_code", "ffmpeg_stderr", "ffmpeg_stdout"})

\* mutant: output that does not parse is taken for a success
processAudioFileLenientParse(env) ==
    IF ~env.pySpawnOk
    THEN RejectWith("Failed to spawn Python process", "",
                    {"error", "python_executable", "python_script"})
    ELSE IF env.pyExit = 0
    THEN IF env.parseable /\ env.declared # "success"
         THEN RejectWith(IF env.toolMessage # NoError THEN env.toolMessage
                         ELSE "Processing failed", "tool",
                         {"error_type", "python_output"})
         ELSE [Resolve([status |-> "success", output |-> env.hasOutput,
                        videoOutput |-> FALSE])
                  EXCEPT !.artifact = env.artifact]
    ELSE [RejectWith("Python script execution failed", "",
                     {"exit_code", "python_stderr", "python_stdout"})
             EXCEPT !.python_stderr = errorOutput]

processAudioFile(env) ==
    IF ~env.pySpawnOk
    THEN RejectWith("Failed to spawn Python process", "",
                    {"error", "python_executable", "python_script"})
    ELSE IF env.pyExit = 0
    THEN IF env.parseable
         THEN IF env.declared = "success"
              THEN [Resolve([status |-> "success", output |-> env.hasOutput,
                             videoOutput |-> FALSE])
                       EXCEPT !.artifact = env.artifact]
              ELSE RejectWith(IF env.toolMessage # NoError THEN env.toolMessage
                              ELSE "Processing failed", "tool",
                              {"error_type", "python_output"})
         ELSE RejectWith("Failed to parse Python script output", "",
                         {"python_output", "python_stderr", "parse_error"})
    ELSE [RejectWith("Python script execution failed", "",
                     {"exit_code", "python_stderr", "python_stdout"})
             EXCEPT !.python_stderr = errorOutput]

\* mergeAudioIntoVideo followed by getFileInfo: TRUE when the merged video
\* was written, FALSE when the step throws
mergeAudioIntoVideo(env) == env.mergeOk

\* mutant: a failure of the merge step is not caught
separateAudioMergeThrows(ext, env) ==
    LET fileType == detectFileType(ext)
        extraction == IF fileType = "video" THEN extractAudioFromVideo(env)
                      ELSE Resolve(NoResult)
        separated == processAudioFile(env)
    IN  IF ~extraction.ok THEN extraction
        ELSE IF separated.ok /\ fileType = "video" /\ separated.result.output
        THEN IF mergeAudioIntoVideo(env)
             THEN [separated EXCEPT !.result.videoOutput = TRUE, !.merge = "ok"]
             ELSE [Reject("Failed to merge audio into video", "MERGE_FAILED")
                      EXCEPT !.merge = "failed"]
        ELSE separated

\* separateAudio(inputPath, outputDir): the worker passes no isVideo, so the
\* kind is detected from the extension of the stored upload
separateAudio(ext, env) ==
    LET fileType == detectFileType(ext)
        extraction == IF fileType = "video" THEN extractAudioFromVideo(env)
                      ELSE Resolve(NoResult)
        separated == processAudioFile(env)
    IN  IF ~extraction.ok THEN extraction
        ELSE IF separated.ok /\ fileType = "video" /\ separated.result.output
        THEN IF mergeAudioIntoVideo(env)
             THEN [separated EXCEPT !.result.videoOutput = TRUE, !.merge = "ok"]
             ELSE [separated EXCEPT !.merge = "failed"]   \* caught and logged
        ELSE separated

\* processWithProgress, after `await processingPromise`: a resolved result
\* whose status is not success is thrown as Error(result.message || ...)
processingOutcome(ext, env) ==
    LET r == separateAudio(ext, env)
    IN  IF r.ok /\ r.result.status # "success"
        THEN Reject("Processing failed", "")
        ELSE r

\* every way one run of separateAudio under processWithProgress can end, per
\* extension of the stored upload
Outcomes == [ext \in Extensions |-> {processingOutcome(ext, env) : env \in WorkerEnvs}]

AllOutcomes == UNION {Outcomes[ext] : ext \in Extensions}

\* ------------------------------------------------------------------ state
VARIABLES
    separationQueue,  \* the queue store: job id -> job record
    inputFiles,       \* ids of the jobs whose uploaded input file exists
    pendingUpload,    \* id of the job enqueued by an upload that is not answered yet
    resp              \* what the latest step let out of the process: the HTTP
                      \* response it sent, or the rejection it left unhandled
                      \* (errorCode "UNHANDLED_REJECTION"); NoResp if nothing

\* The parts of the program that run outside the queue have their own state:
VARIABLES
    call,             \* the latest call of a function of the services and
                      \* utilities, with its arguments and what it returned
    separation,       \* the run of separateAudio for one job: its position
                      \* and its locals
    tempFiles,        \* the extracted-audio files that exist in uploads/temp
    hook              \* the state of the frontend hook useJobStatus

vars == <<separationQueue, inputFiles, pendingUpload, resp,
          call, separation, tempFiles, hook>>

\* what the routes and the worker leave alone
offQueue == <<call, separation, tempFiles, hook>>

\* what the services, utilities and the frontend leave alone
queueVars == <<separationQueue, inputFiles, pendingUpload, resp>>

States == {"waiting", "active", "delayed", "completed", "failed"}

NoOutcome == Reject(NoError, "")


NoUpload == [hasFile |-> FALSE, mimetype |-> "", ext |-> "", size |-> 0]

NoResp ==
    [endpoint |-> "none", code |-> 0, errorCode |-> "", jobId |-> NoJob,
     status |-> "", progress |-> 0, result |-> NoResult, error |-> NoError,
     file |-> FALSE, upload |-> NoUpload]

\* no function was called yet
NoCall == [fn |-> "none"]

\* separateAudio is not running
NoSeparation ==
    [pc |-> "idle", ext |-> "", fileType |-> "audio", extractedAudioPath |-> 0,
     outcome |-> NoOutcome, runs |-> 0, crashes |-> 0, cleanups |-> 0,
     raised |-> FALSE]

\* useJobStatus before a job id is set: useState('queued'), useState(false)
NoHook ==
    [jobId |-> FALSE, status |-> "queued", isPolling |-> FALSE,
     interval |-> FALSE, attempts |-> 0, inflight |-> {}, server |-> "waiting",
     isMounted |-> TRUE]

Init ==
    /\ separationQueue = <<>>
    /\ inputFiles = {}
    /\ pendingUpload = NoJob
    /\ resp = NoResp
    /\ call = NoCall
    /\ separation = NoSeparation
    /\ tempFiles = {}
    /\ hook = NoHook

Enqueued == DOMAIN separationQueue

\* getQueueStats().total
QueueTotal == Cardinality(Enqueued)

ActiveCount == Cardinality({j \in Enqueued : separationQueue[j].state = "active"})

\* an error answer, of a route's catch block or of the error middleware of index.ts
ErrorResp(endpoint, error, jobId, upload) ==
    [NoResp EXCEPT !.endpoint = endpoint, !.code = getStatusCode(error),
                   !.errorCode = formatErrorCode(error), !.jobId = jobId,
                   !.upload = upload]

\* ----------------------------------------------- POST /api/separation/process
\* the error that ends an upload before a job is enqueued, "none" if there is none
uploadError(u) ==
    IF u.hasFile /\ ~fileFilter(u.mimetype) THEN FileUploadError   \* multer, fileFilter
    ELSE IF u.hasFile /\ exceedsMulterLimit(u.size) THEN PlainError \* multer, LIMIT_FILE_SIZE
    ELSE IF ~u.hasFile THEN ValidationError                          \* separation.ts:24
    ELSE IF u.size > MAX_FILE_SIZE_BYTES THEN ValidationError         \* separation.ts:32
    ELSE [class |-> "none", code |-> "", statusCode |-> 0]

Uploads ==
    {NoUpload} \cup
    {[hasFile |-> TRUE, mimetype |-> k[1], ext |-> k[2], size |-> size] :
        k \in UploadKinds, size \in Sizes}

\* the upload is refused: by multer (the error goes to the error middleware of
\* index.ts) or by the handler's own checks (its catch block answers); the
\* stored file, if any, is removed and nothing is enqueued
UploadReject(u) ==
    /\ pendingUpload = NoJob
    /\ uploadError(u).class # "none"
    /\ resp' = ErrorResp("upload", uploadError(u), NoJob, u)
    /\ UNCHANGED <<separationQueue, inputFiles, pendingUpload>>
    /\ UNCHANGED offQueue

\* separationQueue.add throws (the store is unreachable): the catch block
\* removes the file and answers 500
UploadAddFails(u) ==
    /\ pendingUpload = NoJob
    /\ uploadError(u).class = "none"
    /\ resp' = ErrorResp("upload", PlainError, NoJob, u)
    /\ UNCHANGED <<separationQueue, inputFiles, pendingUpload>>
    /\ UNCHANGED offQueue

NewJob(u) ==
    [state |-> "waiting", progress |-> 0, attemptsMade |-> 0,
     returnvalue |-> NoResult, failedReason |-> NoError,
     ext |-> u.ext,
     fileType |-> IF isVideoFile(u.mimetype, u.ext) THEN "video" ELSE "audio",
     pc |-> "idle", hb |-> FALSE, outcome |-> NoOutcome]

\* the id under which the job is enqueued: generateOutputDirName() is fresh
freshJobId == QueueTotal + 1

\* mutant: the answer carries an id other than the one the job was added under
respondedJobIdOther(jobId) == jobId + 1

\* the jobId of the 202 answer is job.id of the job that add() returned
respondedJobId(jobId) == jobId

\* res.status(202).json({jobId: job.id, status: 'queued', statusUrl, downloadUrl})
AcceptedResp(jobId) ==
    [NoResp EXCEPT !.endpoint = "upload", !.code = 202,
                   !.jobId = respondedJobId(jobId), !.status = "queued"]

\* the handler up to `await separationQueue.add(jobId, jobData, {jobId})`
UploadEnqueue(u) ==
    /\ pendingUpload = NoJob
    /\ uploadError(u).class = "none"
    /\ QueueTotal < MaxJobs
    /\ separationQueue' = (freshJobId :> NewJob(u)) @@ separationQueue
    /\ inputFiles' = inputFiles \cup {freshJobId}
    /\ pendingUpload' = freshJobId
    /\ resp' = NoResp
    /\ UNCHANGED offQueue

\* the handler after the await: the 202 answer
UploadRespond ==
    /\ pendingUpload # NoJob
    /\ resp' = AcceptedResp(pendingUpload)
    /\ pendingUpload' = NoJob
    /\ UNCHANGED <<separationQueue, inputFiles>>
    /\ UNCHANGED offQueue

\* the whole handler of an accepted upload, run before the worker's next step
Upload(u) ==
    /\ pendingUpload = NoJob
    /\ uploadError(u).class = "none"
    /\ QueueTotal < MaxJobs
    /\ separationQueue' = (freshJobId :> NewJob(u)) @@ separationQueue
    /\ inputFiles' = inputFiles \cup {freshJobId}
    /\ resp' = AcceptedResp(freshJobId)
    /\ UNCHANGED pendingUpload
    /\ UNCHANGED offQueue

\* ----------------------------------------------------- queue.ts, the worker
\* A job's pc is the position of the worker's processor in the current
\* attempt: "idle" (not being processed), "begin" (claimed), "started"
\* (after updateProgress(10)), "processing" (after updateProgress(20), while
\* separateAudio runs and the interval is armed), "returning" (after
\* updateProgress(100)), "throwing" (after updateProgress(-1)).  hb says that
\* a run of the interval callback is suspended in `await job.getState()`.
\* job.updateProgress sets job.progress at the call and sends the write on
\* the worker's connection, whose commands are served in order: the stored
\* progress takes the values of job.progress in the same order.

SetJob(j, rec) == separationQueue' = [separationQueue EXCEPT ![j] = rec]

\* the worker claims a waiting job (BullMQ moves it to active)
Claim(j) ==
    /\ j \in Enqueued
    /\ separationQueue[j].state = "waiting"
    /\ ActiveCount < CONCURRENCY
    /\ SetJob(j, [separationQueue[j] EXCEPT !.state = "active", !.pc = "begin"])
    /\ resp' = NoResp
    /\ UNCHANGED <<inputFiles, pendingUpload>>
    /\ UNCHANGED offQueue

\* await job.updateProgress(10)
ProgressStart(j) ==
    /\ j \in Enqueued
    /\ separationQueue[j].pc = "begin"
    /\ SetJob(j, [separationQueue[j] EXCEPT !.progress = 10, !.pc = "started"])
    /\ resp' = NoResp
    /\ UNCHANGED <<inputFiles, pendingUpload>>
    /\ UNCHANGED offQueue

\* processWithProgress: await job.updateProgress(20); separateAudio is
\* started and the 30 s interval is armed
ProgressPre(j) ==
    /\ j \in Enqueued
    /\ separationQueue[j].pc = "started"
    /\ SetJob(j, [separationQueue[j] EXCEPT !.progress = 20, !.pc = "processing"])
    /\ resp' = NoResp
    /\ UNCHANGED <<inputFiles, pendingUpload>>
    /\ UNCHANGED offQueue

\* the interval fires: the callback calls job.getState() and is suspended
HeartbeatFire(j) ==
    /\ j \in Enqueued
    /\ separationQueue[j].pc = "processing"
    /\ ~separationQueue[j].hb
    /\ SetJob(j, [separationQueue[j] EXCEPT !.hb = TRUE])
    /\ resp' = NoResp
    /\ UNCHANGED <<inputFiles, pendingUpload>>
    /\ UNCHANGED offQueue

heartbeatProgress(currentProgress) ==
    IF currentProgress < 90
    THEN IF currentProgress + 10 < 90 THEN currentProgress + 10 ELSE 90
    ELSE currentProgress

\* the callback resumes with state 'active' (the job was active when the
\* state was read), reads job.progress and writes the raised value
HeartbeatResume(j) ==
    /\ j \in Enqueued
    /\ separationQueue[j].hb
    /\ SetJob(j, [separationQueue[j] EXCEPT
                    !.progress = heartbeatProgress(separationQueue[j].progress),
                    !.hb = FALSE])
    /\ resp' = NoResp
    /\ UNCHANGED <<inputFiles, pendingUpload>>
    /\ UNCHANGED offQueue

\* a rejection no handler catches, raised by an async callback
UnhandledRejection(endpoint, jobId) ==
    [NoResp EXCEPT !.endpoint = endpoint, !.jobId = jobId,
                   !.errorCode = "UNHANDLED_REJECTION"]

\* the store does not answer the callback's command within
\* maxRetriesPerRequest (redis.ts:14): `await job.getState()` rejects inside
\* the async callback of setInterval, which has no catch
HeartbeatFails(j) ==
    /\ j \in Enqueued
    /\ separationQueue[j].hb
    /\ SetJob(j, [separationQueue[j] EXCEPT !.hb = FALSE])
    /\ resp' = UnhandledRejection("worker", j)
    /\ UNCHANGED <<inputFiles, pendingUpload>>
    /\ UNCHANGED offQueue

\* the progress the processor writes when separateAudio has settled
settledProgress(ok) == IF ok THEN 100 ELSE -1

\* processingPromise settles: clearInterval, then in the same run of the
\* event loop the processor calls updateProgress(100) (result returned) or
\* updateProgress(-1) (error caught at queue.ts:57)
Settle(j, o) ==
    /\ j \in Enqueued
    /\ separationQueue[j].pc = "processing"
    /\ o \in Outcomes[separationQueue[j].ext]
    /\ SetJob(j, [separationQueue[j] EXCEPT
                    !.progress = settledProgress(o.ok),
                    !.pc = IF o.ok THEN "returning" ELSE "throwing",
                    !.outcome = o])
    /\ resp' = NoResp
    /\ UNCHANGED <<inputFiles, pendingUpload>>
    /\ UNCHANGED offQueue

\* `return result`: BullMQ stores the return value and moves the job to
\* completed.  The reply to a getState sent earlier arrives first.
Complete(j) ==
    /\ j \in Enqueued
    /\ separationQueue[j].pc = "returning"
    /\ ~separationQueue[j].hb
    /\ SetJob(j, [separationQueue[j] EXCEPT
                    !.state = "completed",
                    !.returnvalue = separationQueue[j].outcome.result,
                    !.pc = "idle", !.outcome = NoOutcome])
    /\ resp' = NoResp
    /\ UNCHANGED <<inputFiles, pendingUpload>>
    /\ UNCHANGED offQueue

\* mutant: one attempt too many before the job is failed for good
shouldRetryOffByOne(attemptsMade) == attemptsMade <= JOB_ATTEMPTS

\* BullMQ retries while the attempts made are fewer than opts.attempts
shouldRetry(attemptsMade) == attemptsMade < JOB_ATTEMPTS

\* `throw error`: BullMQ counts the attempt, stores error.message as
\* failedReason and moves the job to delayed (exponential backoff) when an
\* attempt is left, to failed otherwise
Fail(j) ==
    /\ j \in Enqueued
    /\ separationQueue[j].pc = "throwing"
    /\ ~separationQueue[j].hb
    /\ LET made == separationQueue[j].attemptsMade + 1
       IN  SetJob(j, [separationQueue[j] EXCEPT
                        !.attemptsMade = made,
                        !.failedReason = separationQueue[j].outcome.message,
                        !.state = IF shouldRetry(made) THEN "delayed" ELSE "failed",
                        !.pc = "idle", !.outcome = NoOutcome])
    /\ resp' = NoResp
    /\ UNCHANGED <<inputFiles, pendingUpload>>
    /\ UNCHANGED offQueue

\* the backoff delay has passed: BullMQ moves the job back to waiting
Promote(j) ==
    /\ j \in Enqueued
    /\ separationQueue[j].state = "delayed"
    /\ SetJob(j, [separationQueue[j] EXCEPT !.state = "waiting"])
    /\ resp' = NoResp
    /\ UNCHANGED <<inputFiles, pendingUpload>>
    /\ UNCHANGED offQueue

\* mutant: the status drops the failure reason of the job
getJobStatusNoError(job) ==
    [status |-> job.state, progress |-> job.progress,
     result |-> job.returnvalue, error |-> NoError]

\* ---------------------------------------------------------- status, download
\* getJobStatus(jobId) of a job that is in the queue
getJobStatus(job) ==
    [status |-> job.state,
     progress |-> job.progress,
     result |-> job.returnvalue,          \* returnValue || null
     error |-> job.failedReason]          \* failedReason || undefined

\* GET /status/:jobId.  For an unknown id getJobStatus throws 'Job not
\* found' and the catch block throws NotFoundError out of the async handler:
\* a router that forwards rejected handler promises (Express 5) hands it to
\* the error middleware of index.ts, one that does not (Express 4) leaves
\* the rejection unhandled and the request unanswered.
Status(id, forwarded) ==
    /\ IF id \in Enqueued
       THEN LET s == getJobStatus(separationQueue[id])
            IN  resp' = [NoResp EXCEPT !.endpoint = "status", !.code = 200,
                           !.jobId = id, !.status = s.status,
                           !.progress = s.progress, !.result = s.result,
                           !.error = s.error]
       ELSE IF forwarded
       THEN resp' = ErrorResp("status", NotFoundError, id, NoUpload)
       ELSE resp' = UnhandledRejection("status", id)
    /\ UNCHANGED <<separationQueue, inputFiles, pendingUpload>>
    /\ UNCHANGED offQueue

\* mutant: the handler forgets to look at the state of the job
downloadDecisionNoStateCheck(known, state, result) ==
    IF ~known THEN "notfound" ELSE "send"

\* the decision of the download handler: "send" or the error it throws
downloadDecision(known, state, result) ==
    IF ~known THEN "notfound"
    ELSE IF state # "completed" THEN "notcompleted"
    ELSE IF result.status # "success" \/ ~result.output THEN "nooutput"
    ELSE "send"

\* GET /download/:jobId
Download(id) ==
    /\ LET known == id \in Enqueued
           state == IF known THEN separationQueue[id].state ELSE ""
           result == IF known THEN separationQueue[id].returnvalue ELSE NoResult
           d == downloadDecision(known, state, result)
       IN  resp' =
             IF d = "send"
             THEN [NoResp EXCEPT !.endpoint = "download", !.code = 200,
                                 !.jobId = id, !.file = TRUE]
             ELSE IF d = "notfound"
             THEN ErrorResp("download", NotFoundError, id, NoUpload)
             ELSE IF d = "notcompleted"
             THEN [ErrorResp("download", ValidationError, id, NoUpload)
                      EXCEPT !.status = state]  \* `Current status: ${state}`
             ELSE ErrorResp("download", ValidationError, id, NoUpload)
    /\ UNCHANGED <<separationQueue, inputFiles, pendingUpload>>
    /\ UNCHANGED offQueue

\* ------------------------------------------- the services, called directly
\* one environment of the transcoder per way extractAudioFromVideo can go;
\* what the inference tool would do is left at one value
ExtractorEnvs ==
    {env \in Envs : /\ env.pySpawnOk /\ env.pyExit = 0 /\ env.parseable
                    /\ env.declared = "success" /\ env.toolMessage = NoError
                    /\ env.hasOutput /\ env.artifact = "ok" /\ env.mergeOk}

\* one environment of the inference tool per way processAudioFile can go;
\* what the transcoder would do is left at one value
InvokerEnvs ==
    {env \in Envs : /\ env.ffmpegAvailable /\ env.ffmpegSpawnOk
                    /\ env.ffmpegExit = 0 /\ env.extracted = "ok"}

\* extractAudioFromVideo spawns the transcoder only after the probe
\* checkFFmpegAvailable() answered true
ffmpegSpawned(env) == env.ffmpegAvailable

CallExtractAudioFromVideo(env) ==
    /\ call' = [fn |-> "extractAudioFromVideo", env |-> env,
                out |-> extractAudioFromVideo(env),
                spawned |-> ffmpegSpawned(env)]
    /\ UNCHANGED <<separation, tempFiles, hook>>
    /\ UNCHANGED queueVars

CallProcessAudioFile(env) ==
    /\ call' = [fn |-> "processAudioFile", env |-> env,
                out |-> processAudioFile(env)]
    /\ UNCHANGED <<separation, tempFiles, hook>>
    /\ UNCHANGED queueVars

NextServices ==
    \/ \E env \in ExtractorEnvs : CallExtractAudioFromVideo(env)
    \/ \E env \in InvokerEnvs : CallProcessAudioFile(env)

SpecServices == Init /\ [][NextServices]_vars

\* ----------------------------------------- separateAudio, step by step
\* `let extractedAudioPath: string | undefined`
NoPath == 0

\* getTempAudioPath: the name ends in Date.now() and a random number, so
\* each call returns a path no earlier call returned; calls is the number
\* of earlier calls
getTempAudioPath(calls) == calls + 1

\* mutant: a cleanup that leaves the file where it is
cleanupFileNoop(files, path) == [files |-> files, error |-> NoError]

\* cleanupFile: fs.unlink; ENOENT (the file is not there) is swallowed
cleanupFile(files, path) == [files |-> files \ {path}, error |-> NoError]

\* the environments one run of separateAudio is taken through
SeparationEnvs == WorkerEnvs \cup ExtractorEnvs

\* the position a run starts from once the kind is known, with a new temp
\* path for a video
BeginRun(ext, env, runs, crashes) ==
    LET fileType == detectFileType(ext)
    IN  [pc |-> IF fileType = "video" THEN "extracting" ELSE "separating",
         ext |-> ext, env |-> env, fileType |-> fileType,
         extractedAudioPath |-> IF fileType = "video" THEN getTempAudioPath(runs)
                                ELSE NoPath,
         outcome |-> NoOutcome, runs |-> runs + 1, crashes |-> crashes,
         cleanups |-> 0, raised |-> FALSE]

\* the worker calls separateAudio(inputPath, outputDir) for a job
StartSeparation(ext, env) ==
    /\ separation.pc = "idle"
    /\ separation' = BeginRun(ext, env, 0, 0)
    /\ UNCHANGED <<call, tempFiles, hook>>
    /\ UNCHANGED queueVars

\* the transcoder runs (when it is there and can be spawned) and leaves
\* what it leaves at the temp path
ExtractWrites ==
    /\ separation.pc = "extracting"
    /\ tempFiles' = IF ffmpegSpawned(separation.env) /\ separation.env.ffmpegSpawnOk
                          /\ separation.env.extracted # "missing"
                    THEN tempFiles \cup {separation.extractedAudioPath}
                    ELSE tempFiles
    /\ separation' = [separation EXCEPT !.pc = "extracted"]
    /\ UNCHANGED <<call, hook>>
    /\ UNCHANGED queueVars

\* extractAudioFromVideo settles: it unlinks an empty file itself; on a
\* rejection the inner catch cleans up and rethrows
ExtractSettles ==
    /\ separation.pc = "extracted"
    /\ LET env == separation.env
           out == extractAudioFromVideo(env)
           emptied == /\ env.ffmpegAvailable /\ env.ffmpegSpawnOk
                      /\ env.ffmpegExit = 0 /\ env.extracted = "empty"
           files == IF emptied THEN tempFiles \ {separation.extractedAudioPath}
                    ELSE tempFiles
           cleaned == cleanupFile(files, separation.extractedAudioPath)
       IN  IF out.ok
           THEN /\ separation' = [separation EXCEPT !.pc = "separating"]
                /\ tempFiles' = files
           ELSE /\ separation' = [separation EXCEPT
                                    !.pc = "finally", !.outcome = out,
                                    !.cleanups = 1,
                                    !.raised = FALSE]   \* .catch(() => {})
                /\ tempFiles' = cleaned.files
    /\ UNCHANGED <<call, hook>>
    /\ UNCHANGED queueVars

\* processAudioFile settles
Separate ==
    /\ separation.pc = "separating"
    /\ LET out == processAudioFile(separation.env)
       IN  separation' = [separation EXCEPT
               !.outcome = out,
               !.pc = IF out.ok /\ separation.fileType = "video" /\ out.result.output
                      THEN "merging" ELSE "finally"]
    /\ UNCHANGED <<call, tempFiles, hook>>
    /\ UNCHANGED queueVars

\* mergeAudioIntoVideo and getFileInfo, in their own try/catch
Merge ==
    /\ separation.pc = "merging"
    /\ separation' = [separation EXCEPT
           !.outcome = IF mergeAudioIntoVideo(separation.env)
                       THEN [@ EXCEPT !.result.videoOutput = TRUE, !.merge = "ok"]
                       ELSE [@ EXCEPT !.merge = "failed"],
           !.pc = "finally"]
    /\ UNCHANGED <<call, tempFiles, hook>>
    /\ UNCHANGED queueVars

\* the finally block, after which separateAudio returns or throws
Finally ==
    /\ separation.pc = "finally"
    /\ IF separation.extractedAudioPath # NoPath
       THEN LET cleaned == cleanupFile(tempFiles, separation.extractedAudioPath)
            IN  /\ tempFiles' = cleaned.files
                /\ separation' = [separation EXCEPT
                                    !.pc = "done", !.cleanups = @ + 1,
                                    !.raised = FALSE]   \* .catch logs
       ELSE /\ tempFiles' = tempFiles
            /\ separation' = [separation EXCEPT !.pc = "done"]
    /\ UNCHANGED <<call, hook>>
    /\ UNCHANGED queueVars

\* the worker process dies while separateAudio awaits: nothing of the run
\* is executed any more, the files stay
Crash ==
    /\ separation.pc \in {"extracted", "separating", "merging"}
    /\ separation.crashes < MaxCrashes
    /\ separation' = [separation EXCEPT !.pc = "crashed", !.crashes = @ + 1]
    /\ UNCHANGED <<call, tempFiles, hook>>
    /\ UNCHANGED queueVars

\* BullMQ finds the job stalled and hands the same job to a worker again
Redeliver ==
    /\ separation.pc = "crashed"
    /\ separation' = BeginRun(separation.ext, separation.env, separation.runs,
                              separation.crashes)
    /\ UNCHANGED <<call, tempFiles, hook>>
    /\ UNCHANGED queueVars

NextSeparation ==
    \/ \E ext \in Extensions, env \in SeparationEnvs : StartSeparation(ext, env)
    \/ ExtractWrites
    \/ ExtractSettles
    \/ Separate
    \/ Merge
    \/ Finally
    \/ Crash
    \/ Redeliver

SpecSeparation == Init /\ [][NextSeparation]_vars

\* ------------------------------------------- useJobStatus (frontend)
\* what a poll can come back with: the state of the job when the server
\* answered, or no answer (axios rejects: network error, timeout)
PollAnswers == {"waiting", "active", "completed", "failed", "networkError"}

\* the polls that can be under way, numbered by attempt
PollResponses == [n : 1..MaxPolls, status : PollAnswers]

\* pollStatus up to its await: the attempt is counted and the request sent;
\* the server reads the state of the job as it is now.  Past the maximum of
\* attempts the interval is cleared instead.
pollStatus(h, answer) ==
    IF h.attempts >= MAX_POLLING_ATTEMPTS
    THEN [h EXCEPT !.interval = FALSE, !.isPolling = FALSE]
    ELSE [h EXCEPT !.attempts = @ + 1,
                   !.inflight = @ \cup {[n |-> h.attempts + 1, status |-> answer]}]

\* the effect on [jobId] runs for a new job: attempts reset, polling on, the
\* initial poll, the interval armed
SetJobId(lost) ==
    /\ ~hook.jobId
    /\ hook.isMounted
    /\ hook' = [pollStatus([hook EXCEPT !.jobId = TRUE, !.attempts = 0,
                                        !.isPolling = TRUE],
                           IF lost THEN "networkError" ELSE hook.server)
                   EXCEPT !.interval = TRUE]
    /\ UNCHANGED <<call, separation, tempFiles>>
    /\ UNCHANGED queueVars

\* the interval fires, whether or not earlier polls have come back
Tick(lost) ==
    /\ hook.interval
    /\ hook.attempts < MaxPolls
    /\ hook' = pollStatus(hook, IF lost THEN "networkError" ELSE hook.server)
    /\ UNCHANGED <<call, separation, tempFiles>>
    /\ UNCHANGED queueVars

\* a poll comes back, in any order, and pollStatus goes on after its await
PollReturns(r) ==
    /\ r \in hook.inflight
    /\ LET h == [hook EXCEPT !.inflight = @ \ {r}]
       IN  hook' = IF ~h.isMounted \/ r.status = "networkError" THEN h
                   ELSE IF r.status \in {"completed", "failed"}
                   THEN [h EXCEPT !.status = r.status, !.isPolling = FALSE,
                                  !.interval = FALSE]
                   ELSE [h EXCEPT !.status = r.status]
    /\ UNCHANGED <<call, separation, tempFiles>>
    /\ UNCHANGED queueVars

\* the job moves on at the backend
ServerAdvance ==
    /\ hook.server \in {"waiting", "active"}
    /\ \E next \in (IF hook.server = "waiting" THEN {"active"}
                     ELSE {"completed", "failed"}) :
          hook' = [hook EXCEPT !.server = next]
    /\ UNCHANGED <<call, separation, tempFiles>>
    /\ UNCHANGED queueVars

\* the component is unmounted: both cleanups run
Unmount ==
    /\ hook.isMounted
    /\ hook' = [hook EXCEPT !.isMounted = FALSE, !.interval = FALSE,
                            !.isPolling = FALSE]
    /\ UNCHANGED <<call, separation, tempFiles>>
    /\ UNCHANGED queueVars

NextHook ==
    \/ \E lost \in BOOLEAN : SetJobId(lost)
    \/ \E lost \in BOOLEAN : Tick(lost)
    \/ \E r \in PollResponses : PollReturns(r)
    \/ ServerAdvance
    \/ Unmount

SpecHook == Init /\ [][NextHook]_vars

\* ------------------------------------- the file checks, called directly
\* the declared content types tried: the allowed ones, a generic binary one
\* and none (some browsers leave File.type empty)
AllMimetypes == ALLOWED_MIME_TYPES \cup {"application/octet-stream", ""}

\* the extensions tried: the known ones, an unknown one and none
AllExtensions == videoExtensions \cup audioExtensions \cup {".xyz", ""}

\* frontend/utils/constants.ts
FRONTEND_MAX_FILE_SIZE_MB == 100
FRONTEND_MAX_FILE_SIZE_BYTES == FRONTEND_MAX_FILE_SIZE_MB * 1024 * 1024

SUPPORTED_FILE_TYPES == 
    {"audio/mpeg", "audio/wav", "audio/mp4", "audio/flac", "audio/ogg",
     "audio/aac", "audio/x-m4a", "audio/m4a",
     "video/mp4", "video/mpeg", "video/quicktime", "video/x-msvideo",
     "video/webm", "video/x-matroska"}

SUPPORTED_EXTENSIONS ==
    {".mp3", ".wav", ".m4a", ".flac", ".ogg", ".aac",
     ".mp4", ".mpeg", ".mpg", ".mov", ".avi", ".webm", ".mkv"}

\* the files a user can pick: a name made of a base and an extension (either
\* may be empty), the content type the browser declares, a size
Files ==
    [base : {"", "song"}, ext : AllExtensions, type : AllMimetypes, size : Sizes]

\* frontend/utils/validation.ts; each check is TRUE when it answers valid
validateFileName(file) == ~(file.base = "" /\ file.ext = "")

validateFileSize(file) == ~(file.size > FRONTEND_MAX_FILE_SIZE_BYTES)

validateFileExtension(file) ==
    IF file.ext = "" THEN FALSE
    ELSE IF file.ext \notin SUPPORTED_EXTENSIONS THEN FALSE
    ELSE TRUE

validateFileType(file) ==
    IF file.type \notin SUPPORTED_FILE_TYPES
    THEN IF file.ext \notin SUPPORTED_EXTENSIONS THEN FALSE ELSE TRUE
    ELSE TRUE

validateFile(file) ==
    IF ~validateFileName(file) THEN FALSE
    ELSE IF ~validateFileSize(file) THEN FALSE
    ELSE IF ~validateFileExtension(file) THEN FALSE
    ELSE IF ~validateFileType(file) THEN FALSE
    ELSE TRUE

\* multer on the backend: the filter on the declared type, then the size limit
backendAccepts(file) == fileFilter(file.type) /\ ~exceedsMulterLimit(file.size)

\* the file is checked by the frontend and, separately, by the backend
ValidateBoth(file) ==
    /\ call' = [fn |-> "validateFile", file |-> file,
                frontend |-> validateFile(file),
                backend |-> backendAccepts(file)]
    /\ UNCHANGED <<separation, tempFiles, hook>>
    /\ UNCHANGED queueVars

\* one upload through the kind detection of the upload handler (what it
\* records as fileType) and of the worker (separateAudio called without
\* isVideo on the stored file, which keeps the extension of the upload)
DetectKind(mimetype, ext) ==
    /\ call' = [fn |-> "detectKind", mimetype |-> mimetype, ext |-> ext,
                accepted |-> fileFilter(mimetype),
                recorded |-> IF isVideoFile(mimetype, ext) THEN "video" ELSE "audio",
                processed |-> detectFileType(ext)]
    /\ UNCHANGED <<separation, tempFiles, hook>>
    /\ UNCHANGED queueVars

NextFiles ==
    \/ \E file \in Files : ValidateBoth(file)
    \/ \E mimetype \in AllMimetypes, ext \in AllExtensions : DetectKind(mimetype, ext)

SpecFiles == Init /\ [][NextFiles]_vars

\* ------------------------------------------------------------ specification
Next ==
    \/ \E u \in Uploads : UploadReject(u)
    \/ \E u \in Uploads : UploadAddFails(u)
    \/ \E u \in Uploads : UploadEnqueue(u)
    \/ UploadRespond
    \/ \E u \in Uploads : Upload(u)
    \/ \E j \in JobIds : Claim(j)
    \/ \E j \in JobIds : ProgressStart(j)
    \/ \E j \in JobIds : ProgressPre(j)
    \/ \E j \in JobIds : HeartbeatFire(j)
    \/ \E j \in JobIds : HeartbeatResume(j)
    \/ \E j \in JobIds : HeartbeatFails(j)
    \/ \E j \in JobIds, o \in AllOutcomes : Settle(j, o)
    \/ \E j \in JobIds : Complete(j)
    \/ \E j \in JobIds : Fail(j)
    \/ \E j \in JobIds : Promote(j)
    \/ \E id \in RequestIds :
          \E forwarded \in (IF id \in Enqueued THEN {TRUE} ELSE BOOLEAN) :
             Status(id, forwarded)
    \/ \E id \in RequestIds : Download(id)
    \/ NextServices
    \/ NextFiles
    \/ NextSeparation
    \/ NextHook

Spec == Init /\ [][Next]_vars

\* the queue and its worker, fed by uploads that pass validation
NextQueue ==
    \/ \E u \in Uploads : Upload(u)
    \/ \E j \in JobIds : Claim(j)
    \/ \E j \in JobIds : ProgressStart(j)
    \/ \E j \in JobIds : ProgressPre(j)
    \/ \E j \in JobIds : HeartbeatFire(j)
    \/ \E j \in JobIds : HeartbeatResume(j)
    \/ \E j \in JobIds, o \in AllOutcomes : Settle(j, o)
    \/ \E j \in JobIds : Complete(j)
    \/ \E j \in JobIds : Fail(j)
    \/ \E j \in JobIds : Promote(j)

SpecQueue == Init /\ [][NextQueue]_vars

\* the queue, its worker and the clients that poll and download
NextStatus ==
    \/ NextQueue
    \/ \E id \in RequestIds :
          \E forwarded \in (IF id \in Enqueued THEN {TRUE} ELSE BOOLEAN) :
             Status(id, forwarded)
    \/ \E id \in RequestIds : Download(id)

SpecStatus == Init /\ [][NextStatus]_vars

\* every upload, accepted or refused, while the worker is busy with a job
\* whose separation has not settled
NextUpload ==
    \/ \E u \in Uploads : UploadReject(u)
    \/ \E u \in Uploads : UploadAddFails(u)
    \/ \E u \in Uploads : UploadEnqueue(u)
    \/ UploadRespond
    \/ \E j \in JobIds : Claim(j)
    \/ \E j \in JobIds : ProgressStart(j)
    \/ \E j \in JobIds : ProgressPre(j)

SpecUpload == Init /\ [][NextUpload]_vars

\* the worker with a store that may fail to answer the heartbeat callback
NextWorker ==
    \/ NextQueue
    \/ \E j \in JobIds : HeartbeatFails(j)

SpecWorker == Init /\ [][NextWorker]_vars

\* What the program itself guarantees to happen: the worker claims a waiting
\* job, every await of the processor on the store returns, the 30 s interval
\* fires, BullMQ settles the job when the processor returns or throws and
\* promotes a delayed job when its backoff has passed.  Nothing makes the
\* subprocess of separateAudio exit: Settle has no fairness.
FairWorker ==
    /\ WF_vars(\E j \in JobIds : Claim(j))
    /\ WF_vars(\E j \in JobIds : ProgressStart(j))
    /\ WF_vars(\E j \in JobIds : ProgressPre(j))
    /\ WF_vars(\E j \in JobIds : HeartbeatFire(j))
    /\ WF_vars(\E j \in JobIds : HeartbeatResume(j))
    /\ WF_vars(\E j \in JobIds : Complete(j))
    /\ WF_vars(\E j \in JobIds : Fail(j))
    /\ WF_vars(\E j \in JobIds : Promote(j))

SpecQueueFair == Init /\ [][NextQueue]_vars /\ FairWorker

\* ------------------------------------------------------------------ claims
Job(j) == separationQueue[j]

StateMoves ==
    {<<"waiting", "active">>, <<"active", "completed">>, <<"active", "failed">>,
     <<"active", "delayed">>, <<"delayed", "waiting">>}

C2_UploadAnswersAfterEnqueue ==
    [][/\ pendingUpload # NoJob => ENABLED UploadRespond
       /\ (resp'.endpoint = "upload" /\ resp'.code = 202)
             => /\ resp'.jobId = pendingUpload
                /\ resp'.jobId \in Enqueued'
                /\ resp'.status = "queued"]_vars

\* the 202 answer is out while no step of the job has run
C2_Witness ==
    /\ resp.endpoint = "upload" /\ resp.code = 202
    /\ resp.jobId \in Enqueued
    /\ Job(resp.jobId).state = "waiting" /\ Job(resp.jobId).progress = 0

Oversized(u) == u.hasFile /\ u.size > MAX_FILE_SIZE_BYTES

\* C3: an upload larger than the maximum is answered with a 4xx status and
\* no job id, and no job is enqueued for it
C3_OversizedRejectedAsClientError ==
    /\ \A u \in Uploads : Oversized(u) => ~ENABLED UploadEnqueue(u)
    /\ (resp.endpoint = "upload" /\ Oversized(resp.upload))
          => resp.code \in 400..499 /\ resp.jobId = NoJob

Unrecognized(u) ==
    /\ u.hasFile
    /\ u.ext \notin (audioExtensions \cup videoExtensions)
    /\ u.mimetype = "application/octet-stream"

\* C4: an upload without a file, or of a file with an unrecognized extension
\* and a generic binary content type, is answered 400 without a job id and is
\* never enqueued
C4_InvalidUploadRejected ==
    /\ \A u \in Uploads :
          (~u.hasFile \/ Unrecognized(u))
             => ~ENABLED UploadEnqueue(u) /\ ~ENABLED UploadAddFails(u)
    /\ (resp.endpoint = "upload" /\ resp.code # 202
            /\ (~resp.upload.hasFile \/ Unrecognized(resp.upload)))
          => resp.code = 400 /\ resp.jobId = NoJob

\* the binary file of an unrecognized extension was refused with 400
C4_Witness ==
    /\ resp.endpoint = "upload" /\ resp.code = 400
    /\ Unrecognized(resp.upload)
    /\ resp.jobId = NoJob

FailureMessages == {o.message : o \in {x \in AllOutcomes : ~x.ok}}

\* C6: the status answer has a result only for a completed job, and for a
\* failed job its error field is the message of the failure
C6_ResultOnlyWhenCompleted ==
    (resp.endpoint = "status" /\ resp.code = 200)
       => /\ resp.result # NoResult
               => resp.status = "completed" /\ resp.result.status = "success"
          /\ resp.status = "failed"
               => /\ resp.error \in FailureMessages
                  /\ resp.error = Job(resp.jobId).failedReason
                  /\ resp.result = NoResult

\* the status of a failed job was asked for
C6_Witness ==
    /\ resp.endpoint = "status" /\ resp.code = 200
    /\ resp.status = "failed" /\ resp.error # NoError

\* C7: the download sends the file only for a completed job with a success
\* Result; for a job in another state it answers 4xx naming that state, for an
\* unknown id 404, and sends no bytes in those cases
C7_DownloadOnlyWhenCompleted ==
    resp.endpoint = "download"
       => IF resp.jobId \in Enqueued
          THEN LET job == Job(resp.jobId)
               IN  /\ resp.file
                        => /\ job.state = "completed"
                           /\ job.returnvalue.status = "success"
                           /\ job.returnvalue.output
                           /\ resp.code = 200
                   /\ job.state # "completed"
                        => /\ ~resp.file
                           /\ resp.code \in 400..499
                           /\ resp.status = job.state
          ELSE resp.code = 404 /\ ~resp.file

\* a download was refused for a job that is being processed
C7_Witness ==
    /\ resp.endpoint = "download" /\ resp.code = 400 /\ ~resp.file
    /\ resp.jobId \in Enqueued
    /\ resp.status = "active"

\* C8: the stored progress of an active job never goes down from one write
\* to the next; it goes down only when a retried job is processed again
C8_ProgressMonotoneWhileActive ==
    [][\A j \in Enqueued :
         LET a == separationQueue[j]
             b == separationQueue'[j]
         IN  b.progress < a.progress
                => /\ a.attemptsMade > 0
                   /\ \/ a.state # "active" /\ b.state = "active"
                      \/ a.pc = "begin"]_vars

\* C9: the status answer reports progress 100 exactly for a completed job
C9_Progress100IffCompleted ==
    (resp.endpoint = "status" /\ resp.code = 200)
       => (resp.progress = 100 <=> resp.status = "completed")

\* C10: the progress of a status answer is a number from 0 to 100
C10_ProgressInRange ==
    (resp.endpoint = "status" /\ resp.code = 200) => resp.progress \in 0..100

Terminal == {"completed", "failed"}

\* C11: the input file of a job is gone once the job is completed or failed
\* for good, and it is still there while the job waits for a retry
C11_InputDeletedWhenTerminal ==
    \A j \in Enqueued :
        /\ Job(j).state \in Terminal => j \notin inputFiles
        /\ Job(j).state \in {"waiting", "delayed"} => j \in inputFiles

\* C12: no step of the upload handler enqueues an upload of zero bytes, and
\* the input file of a job that was just enqueued exists
C12_EnqueuedInputNonEmpty ==
    [][/\ \A u \in Uploads : (u.hasFile /\ u.size = 0) => ~UploadEnqueue(u)
       /\ pendingUpload' # NoJob => pendingUpload' \in inputFiles']_vars

\* C13: a job whose Result names a primary artifact is moved to completed
\* only when that file exists with a non-zero size
C13_CompletedOnlyWithArtifact ==
    [][\A j \in Enqueued :
         (separationQueue[j].state = "active"
             /\ separationQueue'[j].state = "completed"
             /\ separationQueue[j].outcome.result.output)
            => separationQueue[j].outcome.artifact = "ok"]_vars

NotRetryable(o) ==
    \/ o.error_type = "FFMPEG_NOT_FOUND"
    \/ o.message = "Failed to parse Python script output"

\* C15: an attempt that fails because the transcoder is missing or the
\* tool's output is malformed makes the job failed at once, after that one
\* attempt
C15_NoRetryOfDeterministicFailures ==
    [][\A j \in Enqueued :
         (separationQueue[j].pc = "throwing" /\ separationQueue'[j].pc = "idle"
             /\ NotRetryable(separationQueue[j].outcome))
            => /\ separationQueue'[j].state = "failed"
               /\ separationQueue'[j].attemptsMade = 1]_vars

\* C16: a job that is being processed is eventually completed or failed,
\* also when its subprocess never exits
C16_TimedOutJobFails ==
    \A j \in JobIds :
        (j \in Enqueued /\ separationQueue[j].state = "active")
           ~> (j \in Enqueued /\ separationQueue[j].state \in Terminal)

\* C17: the status of a job that failed because the tool exited with code 1
\* says failed after JOB_ATTEMPTS attempts and its error is the text the
\* tool wrote to its diagnostic stream
C17_StatusExposesDiagnostic ==
    (/\ resp.endpoint = "status" /\ resp.code = 200 /\ resp.status = "failed"
     /\ Job(resp.jobId).failedReason = "Python script execution failed")
       => /\ Job(resp.jobId).attemptsMade = JOB_ATTEMPTS
          /\ resp.error = errorOutput

\* C18: no step of the worker leaves a rejection unhandled
C18_NoUnhandledRejection ==
    resp.errorCode # "UNHANDLED_REJECTION"

\* C19: the status answer of a failed job has a message and an error-kind
\* tag (the status body has no field for a kind: errorCode stays empty)
C19_FailedStatusHasKindTag ==
    (resp.endpoint = "status" /\ resp.code = 200 /\ resp.status = "failed")
       => resp.error # NoError /\ resp.errorCode # ""

\* C20: a job that failed for good was processed JOB_ATTEMPTS + 1 times, the
\* first run and JOB_ATTEMPTS retries
C20_RetriesAfterFirstAttempt ==
    \A j \in Enqueued :
        Job(j).state = "failed" => Job(j).attemptsMade = JOB_ATTEMPTS + 1

\* the way a call of processAudioFile went
invokerMode(env) ==
    IF ~env.pySpawnOk THEN "spawn-failure"
    ELSE IF env.pyExit # 0 THEN "non-zero-exit"
    ELSE IF ~env.parseable THEN "malformed-output"
    ELSE IF env.declared # "success" THEN "declared-error"
    ELSE "success"

\* C22: processAudioFile resolves exactly when the tool was spawned, exited
\* 0 and printed a JSON record with status success, and then with that
\* record; unparseable output, a declared error, a non-zero exit and a spawn
\* failure each reject with their own error (the tool's message, the
\* diagnostic stream), and no two of them with the same one
C22_InvokerDecisionRule ==
    call.fn = "processAudioFile"
       => LET env == call.env
              out == call.out
              mode == invokerMode(env)
          IN  /\ out.ok <=> (env.pySpawnOk /\ env.pyExit = 0 /\ env.parseable
                                /\ env.declared = "success")
              /\ out.ok => /\ out.result.status = "success"
                            /\ out.result.output = env.hasOutput
              /\ mode = "malformed-output"
                    => out.message = "Failed to parse Python script output"
              /\ mode = "declared-error"
                    => out.message = (IF env.toolMessage # NoError
                                      THEN env.toolMessage ELSE "Processing failed")
              /\ mode = "non-zero-exit"
                    => /\ out.python_stderr = errorOutput
                       /\ "python_stderr" \in out.details
              /\ mode = "spawn-failure"
                    => out.message = "Failed to spawn Python process"
              /\ \A other \in InvokerEnvs :
                    (~out.ok /\ invokerMode(other) \notin {mode, "success"})
                       => processAudioFile(other).details # out.details

\* the tool exited 0 and its output did not parse
C22_Witness ==
    /\ call.fn = "processAudioFile"
    /\ invokerMode(call.env) = "malformed-output"
    /\ ~call.out.ok

\* the failure mode of a call of extractAudioFromVideo, "none" if there is none
extractorMode(env) ==
    IF ~env.ffmpegAvailable THEN "tool-unavailable"
    ELSE IF ~env.ffmpegSpawnOk THEN "spawn-failure"
    ELSE IF env.ffmpegExit # 0 THEN "non-zero-exit"
    ELSE IF env.extracted = "empty" THEN "empty-output"
    ELSE IF env.extracted = "missing" THEN "missing-output"
    ELSE "none"

FourModes == {"tool-unavailable", "non-zero-exit", "empty-output", "spawn-failure"}

\* C23: two calls of extractAudioFromVideo that fail in different ones of the
\* four modes fail with different error_type tags
C23_ExtractorKindsDistinct ==
    (call.fn = "extractAudioFromVideo" /\ extractorMode(call.env) \in FourModes)
       => \A other \in ExtractorEnvs :
             (extractorMode(other) \in FourModes
                 /\ extractorMode(other) # extractorMode(call.env))
                => extractAudioFromVideo(other).error_type # call.out.error_type

\* C24: extractAudioFromVideo resolves only when the transcoder exited 0 and
\* left a file of non-zero size; a missing or empty file is an extraction
\* failure; when the probe fails the call fails and no transcoder is spawned
C24_ExtractionVerifiesOutput ==
    call.fn = "extractAudioFromVideo"
       => LET env == call.env
              out == call.out
          IN  /\ out.ok => /\ env.ffmpegAvailable /\ env.ffmpegSpawnOk
                            /\ env.ffmpegExit = 0 /\ env.extracted = "ok"
              /\ (env.ffmpegAvailable /\ env.ffmpegSpawnOk /\ env.ffmpegExit = 0
                      /\ env.extracted \in {"missing", "empty"})
                    => ~out.ok /\ out.error_type = "EXTRACTION_FAILED"
              /\ ~env.ffmpegAvailable
                    => /\ ~out.ok /\ out.error_type = "FFMPEG_NOT_FOUND"
                       /\ ~call.spawned

\* the transcoder exited 0 and left an empty file
C24_Witness ==
    /\ call.fn = "extractAudioFromVideo"
    /\ call.env.ffmpegAvailable /\ call.env.ffmpegSpawnOk
    /\ call.env.ffmpegExit = 0 /\ call.env.extracted = "empty"
    /\ ~call.out.ok

\* C25: the kind the upload handler records and the kind the worker detects
\* both follow one policy: the extension lists first, the declared content
\* type only for an extension of neither list, audio otherwise
C25_KindFromExtensionFirst ==
    call.fn = "detectKind"
       => LET policy == IF call.ext \in videoExtensions THEN "video"
                        ELSE IF call.ext \in audioExtensions THEN "audio"
                        ELSE IF call.mimetype \in videoMimeTypes THEN "video"
                        ELSE "audio"
          IN  /\ call.recorded = policy
              /\ call.processed = policy

\* C28: a job that was enqueued is processed as the kind recorded in its data
C28_ProcessedAsRecorded ==
    (call.fn = "detectKind" /\ call.accepted) => call.processed = call.recorded

\* C30: the frontend and the backend accept the same files
C30_ValidatorsAgree ==
    call.fn = "validateFile" => (call.frontend <=> call.backend)

\* C27: when an attempt is handed to the queue as failed, the progress of
\* the job is the sentinel, and a write of the heartbeat callback never sets
\* a value above 90
C27_FailureSentinelLast ==
    [][\A j \in Enqueued :
          /\ (Job(j).pc = "throwing" /\ separationQueue'[j].pc = "idle")
                => Job(j).progress < 0
          /\ (Job(j).hb /\ ~separationQueue'[j].hb
                 /\ separationQueue'[j].progress # Job(j).progress)
                => separationQueue'[j].progress <= 90]_vars

\* C21: a job that was redelivered after a crash ends like a run that was
\* not interrupted: with the same outcome and with no file of an earlier run
\* left beside its own
C21_RedeliveryIdempotent ==
    separation.pc = "done"
       => /\ separation.outcome = separateAudio(separation.ext, separation.env)
          /\ tempFiles = {}

C29_TerminalStatusSticks ==
    [][(hook.isMounted /\ hook.status \in Terminal)
          => /\ hook'.status = hook.status
             /\ ~hook'.isPolling /\ ~hook'.interval]_vars

====
